---- MODULE Spec2Model ----
(***************************************************************************)
(* The XRPL lending demo: the scenario orchestrator of                     *)
(* client/src/lib/xrpl-flow.ts (runLendingFlow, runSharedSetup and the     *)
(* step functions) wired to the dashboard session of                       *)
(* client/src/pages/dashboard.tsx (startFlow, emit, handleImport); and the *)
(* server route of server/routes.ts with the legacy sequential run.        *)
(*                                                                         *)
(* Granularity.  JavaScript runs one macrotask at a time and drains the    *)
(* microtask queue before the next one.  A reply of the network (faucet,   *)
(* submitAndWait, connect, disconnect) is a macrotask; the rest of the     *)
(* step function after its last await, the settling of its promise and the *)
(* continuation of the orchestrator awaiting it (up to the next pending    *)
(* await, the synchronous prefix of the next step functions included) run  *)
(* in the microtasks of that reply.  One action is one such reply with     *)
(* everything it triggers.  The awaits of a step function before its       *)
(* submitAndWait (autofill, diagnostic queries) change no state another    *)
(* step can see and are folded into the reply.                             *)
(*                                                                         *)
(* The report (ctx.report, an array of lines) is kept as the set of its    *)
(* line tags <<kind, a, b>>; the dashboard applies React state updaters in *)
(* the order of the setState calls, so an emitted event is applied at      *)
(* once.                                                                   *)
(***************************************************************************)
EXTENDS Integers, Sequences, FiniteSets, TLC

VARIABLES
    run,              \* slot -> the FlowContext and position of one runLendingFlow call
    state,            \* dashboard: the FlowState of useState(initialState)
    rawReport,        \* dashboard: rawReport
    selectedScenario, \* dashboard: selectedScenario
    sessionRun,       \* history: the call startFlow made for the present session (0: none)
    lastEmitter,      \* history: the call whose event was applied last to the session (0: none)
    route             \* server: one GET /api/run-flow request with its legacy run

vars == <<run, state, rawReport, selectedScenario, sessionRun, lastEmitter, route>>

\* Number of runLendingFlow calls that may be alive (not yet returned, or with
\* step functions still pending) at the same time.
MaxLive == 1

\* Amounts read from the ledger are decimal strings; the model counts them in
\* units of 1/Scale.
Scale == 10

\* The largest outstanding principal, in units of 1/Scale, a loan lookup
\* answers to a step explored on its own.
MaxPrincipal == 25

Slots == 1..MaxLive

Roles == {"issuer", "lender", "borrower", "broker"}

RoleOrder == <<"issuer", "lender", "borrower", "broker">>

ScenarioIds ==
    {"loan-creation", "loan-payment", "loan-default", "early-repayment",
     "full-lifecycle", "signerlist-loan"}

SharedStepIds ==
    {"fund-wallets", "issuer-setup", "lender-trustline", "broker-trustline",
     "borrower-trustline", "create-vault", "batch-issuer-payments",
     "issuer-sends-usd-lender", "issuer-sends-usd-broker", "create-loan-broker",
     "lender-deposits", "broker-cover-deposit"}

TailStepIds ==
    {"loan-set-countersign", "signerlist-set", "loan-set-multisig",
     "fund-borrower-repayment", "loan-pay", "loan-pay-early", "loan-manage-default",
     "loan-delete", "broker-cover-withdraw", "loan-broker-delete", "vault-withdraw",
     "vault-delete", "verify-states"}

StepIds == SharedStepIds \cup TailStepIds

\* The Account field of the transaction a step function builds ("" when the
\* step submits no transaction).
StepAccount(s) ==
    CASE s \in {"issuer-setup", "batch-issuer-payments", "issuer-sends-usd-lender",
                "issuer-sends-usd-broker", "fund-borrower-repayment"} -> "issuer"
      [] s \in {"lender-trustline", "lender-deposits", "vault-withdraw"} -> "lender"
      [] s \in {"borrower-trustline", "loan-pay", "loan-pay-early"} -> "borrower"
      [] s \in {"broker-trustline", "create-vault", "create-loan-broker",
                "broker-cover-deposit", "loan-set-countersign", "signerlist-set",
                "loan-set-multisig", "loan-manage-default", "loan-delete",
                "broker-cover-withdraw", "loan-broker-delete", "vault-delete"} -> "broker"
      [] OTHER -> ""

ScenarioTail_DefaultWithoutDelete(sc) ==
    CASE sc = "signerlist-loan" ->
            <<"signerlist-set", "loan-set-multisig", "verify-states">>
      [] sc = "loan-creation" ->
            <<"loan-set-countersign", "verify-states">>
      [] sc = "loan-payment" ->
            <<"loan-set-countersign", "loan-pay", "verify-states">>
      [] sc = "loan-default" ->
            <<"loan-set-countersign", "loan-manage-default", "verify-states">>
      [] sc = "early-repayment" ->
            <<"loan-set-countersign", "fund-borrower-repayment", "loan-pay-early",
              "loan-delete", "verify-states">>
      [] sc = "full-lifecycle" ->
            <<"loan-set-countersign", "loan-pay", "loan-manage-default",
              "loan-delete", "broker-cover-withdraw", "loan-broker-delete",
              "vault-withdraw", "vault-delete">>

\* The tail of a scenario, in the order runLendingFlow awaits its steps.
ScenarioTail(sc) ==
    CASE sc = "signerlist-loan" ->
            <<"signerlist-set", "loan-set-multisig", "verify-states">>
      [] sc = "loan-creation" ->
            <<"loan-set-countersign", "verify-states">>
      [] sc = "loan-payment" ->
            <<"loan-set-countersign", "loan-pay", "verify-states">>
      [] sc = "loan-default" ->
            <<"loan-set-countersign", "loan-manage-default", "loan-delete",
              "verify-states">>
      [] sc = "early-repayment" ->
            <<"loan-set-countersign", "fund-borrower-repayment", "loan-pay-early",
              "loan-delete", "verify-states">>
      [] sc = "full-lifecycle" ->
            <<"loan-set-countersign", "loan-pay", "loan-manage-default",
              "loan-delete", "broker-cover-withdraw", "loan-broker-delete",
              "vault-withdraw", "vault-delete">>

getScenarioStepCount(sc) ==
    CASE sc = "loan-creation" -> 12
      [] sc = "loan-payment" -> 13
      [] sc = "loan-default" -> 14
      [] sc = "early-repayment" -> 15
      [] sc = "full-lifecycle" -> 18
      [] sc = "signerlist-loan" -> 13
      [] OTHER -> 12

\* What the ledger answers to submitAndWait: a result code in the metadata,
\* or the call throwing ("exception").
ResultCodes == {"tesSUCCESS", "tecNO_PERMISSION"}

Outcomes == ResultCodes \cup {"exception"}

\* The addresses the faucet hands out to call r.
WalletTable ==
    <<[issuer |-> "rIssuer1", lender |-> "rLender1", borrower |-> "rBorrower1",
       broker |-> "rBroker1"],
      [issuer |-> "rIssuer2", lender |-> "rLender2", borrower |-> "rBorrower2",
       broker |-> "rBroker2"],
      [issuer |-> "rIssuer3", lender |-> "rLender3", borrower |-> "rBorrower3",
       broker |-> "rBroker3"]>>

PartyLabel ==
    [issuer |-> "USD Issuer", lender |-> "Lender", borrower |-> "Borrower",
     broker |-> "Broker"]

NoMessage == <<"", "">>

\* q overrides p field by field: the object spread {...p, ...q}.
Merge(p, q) ==
    [f \in (DOMAIN p) \cup (DOMAIN q) |-> IF f \in DOMAIN q THEN q[f] ELSE p[f]]

(***************************************************************************)
(* FlowContext of one call, with the call's position.                      *)
(***************************************************************************)
FreshContext ==
    [pc |-> "none",
     slot |-> 0,
     scenario |-> "loan-creation",
     connected |-> FALSE,
     wallets |-> [role \in Roles |-> ""],
     faucet |-> [role \in Roles |-> "none"],
     vaultId |-> "undefined",
     loanBrokerId |-> "undefined",
     loanId |-> "undefined",
     report |-> {},
     paymentsDone |-> FALSE,
     tailIdx |-> 0,
     promise |-> [s \in StepIds |-> "none"],
     err |-> [s \in StepIds |-> NoMessage],
     replied |-> [s \in StepIds |-> "pending"],
     asked |-> [s \in StepIds |-> [failed |-> {}, principal |-> -1, up |-> FALSE,
                                     fee |-> 0, nodes |-> <<>>]],
     submitted |-> [s \in StepIds |-> <<>>],
     ev |-> [s \in StepIds |-> <<>>],
     shown |-> [role \in Roles |-> [role |-> role]],
     terminal |-> <<>>,
     flowMessage |-> NoMessage,
     returned |-> FALSE,
     result |-> {},
     thrown |-> NoMessage,
     out |-> <<>>]

addReport(rs, lines) == [rs EXCEPT !.report = @ \cup lines]

Emit(rs, e) == [rs EXCEPT !.out = Append(@, e)]

\* ev[s] records, per step id, the statuses of the step_update events emitted
\* so far; terminal, the run-terminal events emitted, and flowMessage the
\* message flow_error carried.
emitStep(rs, s, status) ==
    [Emit(rs, [type |-> "step_update", data |-> [id |-> s, status |-> status]])
        EXCEPT !.ev[s] = Append(@, status)]

\* shown[role] accumulates the fields of the party_update events emitted for
\* the role.
emitParty(rs, party) ==
    [Emit(rs, [type |-> "party_update", data |-> party])
        EXCEPT !.shown[party.role] = Merge(@, party)]

\* The synchronous prefix of a step function: the "running" event, then the
\* first await.
StartStep(rs, s) == [emitStep(rs, s, "running") EXCEPT !.promise[s] = "pending"]

Fulfil(rs, s) == [rs EXCEPT !.promise[s] = "fulfilled"]

\* The catch block every transaction step ends with: an "error" event, then
\* the error is thrown again.
CatchRethrow(rs, s, msg) ==
    [emitStep(rs, s, "error") EXCEPT !.promise[s] = "rejected", !.err[s] = msg]

(***************************************************************************)
(* The replies of the ledger.                                              *)
(***************************************************************************)
\* The ledger entry type a creating step looks for among the affected nodes.
CreatedType(s) ==
    CASE s = "create-vault" -> "Vault"
      [] s = "create-loan-broker" -> "LoanBroker"
      [] s \in {"loan-set-countersign", "loan-set-multisig"} -> "Loan"
      [] OTHER -> ""

LedgerIndexOf(type) ==
    CASE type = "Vault" -> "VAULT-A"
      [] type = "LoanBroker" -> "BROKER-A"
      [] type = "Loan" -> "LOAN-A"
      [] OTHER -> "OBJECT-A"

\* meta.AffectedNodes of a reply: an accepted creating transaction lists the
\* modified account root and the created object; any other reply lists no
\* created object.
AffectedNodesOf(s, code) ==
    IF code = "tesSUCCESS" /\ CreatedType(s) # ""
    THEN {<<[kind |-> "ModifiedNode", LedgerEntryType |-> "AccountRoot",
             LedgerIndex |-> "ACCOUNT-A"],
            [kind |-> "CreatedNode", LedgerEntryType |-> CreatedType(s),
             LedgerIndex |-> LedgerIndexOf(CreatedType(s))]>>}
    ELSE {<<>>}

\* The diagnostic queries (client.request) a step function makes before it
\* builds its transaction; for the verification step, its account_info and
\* account_lines requests (one outcome for the four parties).
DiagQueries(s) ==
    CASE s \in {"loan-set-countersign", "loan-set-multisig"} -> {"vault", "loan-broker"}
      [] s = "loan-pay-early" -> {"loan"}
      [] s = "broker-cover-withdraw" -> {"cover"}
      [] s = "vault-withdraw" -> {"assets"}
      [] s = "verify-states" -> {"account_info", "account_lines"}
      [] OTHER -> {}

PrincipalRequested == 1000

\* parseFloat(outstanding) * 1.1 is a product of doubles: it is the exact
\* product up to rounding, which moves Math.ceil only when the exact product
\* is a whole number, and then by one upwards (100 * 1.1 is
\* 110.00000000000001).  Roundings(p) are the roundings possible for
\* principal p: TRUE when the double product exceeds the exact one.
Roundings(p) == IF p >= 0 /\ (p * 11) % (10 * Scale) = 0 THEN BOOLEAN ELSE {FALSE}

\* What the requests before submitAndWait returned: the queries that threw,
\* OutstandingPrincipal of the loan node in units of 1/Scale (-1: the field
\* is absent), the rounding of the product and the Fee autofill set (0:
\* none).  principals and fees are the values the ledger may answer with,
\* ups the roundings taken into account.
Answers(s, failures, principals, ups, fees) ==
    UNION {UNION {{[failed |-> f, principal |-> p, up |-> u, fee |-> x] :
                      u \in Roundings(p) \cap ups,
                      x \in IF s = "loan-set-multisig" THEN fees ELSE {0}} :
                  p \in IF s = "loan-pay-early" /\ "loan" \notin f
                        THEN principals ELSE {-1}} :
           f \in failures}

\* Once the client is disconnected a pending request can only throw.
\* For the verification step, which submits nothing, the code stands for its
\* ledger_entry lookups: answered ("tesSUCCESS") or thrown ("exception").
\* In a run the diagnostic queries of a connected client are answered, the
\* loan has the principal it was issued for (1000 * 1.1 is 1100 in doubles)
\* and autofill sets the Fee; the other answers are those of a step explored
\* on its own.
Replies(rs, s) ==
    UNION {{Merge([code |-> c, nodes |-> n], a) :
              n \in AffectedNodesOf(s, c),
              a \in Answers(s, IF rs.connected THEN {{}} ELSE {DiagQueries(s)},
                            {PrincipalRequested * Scale}, {FALSE}, {10})} :
           c \in IF ~rs.connected THEN {"exception"}
                 ELSE IF s = "verify-states" THEN {"tesSUCCESS", "exception"}
                 ELSE Outcomes}

\* History: replied[s] is the outcome the network gave to the request of s,
\* asked[s] what its earlier requests returned and the AffectedNodes of the
\* reply.
Replied(rs, s, reply) ==
    [rs EXCEPT !.replied[s] = reply.code,
               !.asked[s] = [failed |-> reply.failed, principal |-> reply.principal,
                             up |-> reply.up, fee |-> reply.fee,
                             nodes |-> reply.nodes]]

TransactionResult_DefaultSuccess(reply) ==
    IF reply.code = "none" THEN "tesSUCCESS" ELSE reply.code

\* (result.result.meta as any)?.TransactionResult || "unknown"
TransactionResult(reply) == IF reply.code = "none" THEN "unknown" ELSE reply.code

FirstCreated_LastMatch(nodes, type) ==
    LET M == {i \in 1..Len(nodes) : /\ nodes[i].kind = "CreatedNode"
                                    /\ nodes[i].LedgerEntryType = type}
    IN  IF M = {} THEN ""
        ELSE nodes[CHOOSE i \in M : \A j \in M : j <= i].LedgerIndex

FirstCreated_FirstNodeOnly(nodes, type) ==
    IF nodes = <<>> THEN ""
    ELSE IF Head(nodes).kind = "CreatedNode" /\ Head(nodes).LedgerEntryType = type
         THEN Head(nodes).LedgerIndex
         ELSE ""

\* The loop over affectedNodes of the creating steps: the LedgerIndex of the
\* first CreatedNode of the given type, "" when there is none.
RECURSIVE FirstCreated(_, _)
FirstCreated(nodes, type) ==
    IF nodes = <<>> THEN ""
    ELSE IF Head(nodes).kind = "CreatedNode" /\ Head(nodes).LedgerEntryType = type
         THEN Head(nodes).LedgerIndex
         ELSE FirstCreated(Tail(nodes), type)

(***************************************************************************)
(* The step functions, from the reply of the ledger to their end.          *)
(* effect is the context after what the function does between              *)
(* submitAndWait and its addReport (reached when submitAndWait returns).   *)
(***************************************************************************)
Math_ceil_Floor(a, b) == a \div b

\* Math.ceil of the quotient a / b of naturals.
Math_ceil(a, b) == (a + b - 1) \div b

\* payAmount of step_loanPay, in whole units: "100", or for the early full
\* repayment Math.ceil(parseFloat(outstanding) * 1.1) when the loan node
\* has an OutstandingPrincipal, and "1100" when the lookup threw.
payAmount(s, reply) ==
    IF s # "loan-pay-early" THEN 100
    ELSE IF "loan" \in reply.failed THEN 1100
    ELSE IF reply.principal < 0 THEN 100
    ELSE Math_ceil(reply.principal * 11, 10 * Scale) + (IF reply.up THEN 1 ELSE 0)

MultiSigFee_NotScaled(fee) == IF fee = 0 THEN 12 ELSE fee

\* signerCount = 1; baseFee = parseInt(prepared.Fee || "12", 10);
\* prepared.Fee = String(baseFee * (signerCount + 1))
MultiSigFee(fee) ==
    LET signerCount == 1
        baseFee == IF fee = 0 THEN 12 ELSE fee
    IN  baseFee * (signerCount + 1)

SignerEntries_Self(rs) == <<[Account |-> rs.wallets["broker"], SignerWeight |-> 1]>>

\* SignerEntries of the SignerListSet transaction: the lender, weight 1.
SignerEntries(rs) == <<[Account |-> rs.wallets["lender"], SignerWeight |-> 1]>>

\* The transaction a step function builds, as autofill prepared it (the
\* fields the properties speak of).
Transaction(rs, s, reply) ==
    LET tx == [Account |-> rs.wallets[StepAccount(s)]]
    IN  CASE s \in {"loan-pay", "loan-pay-early"} ->
                Merge(tx, [TransactionType |-> "LoanPay", LoanID |-> rs.loanId,
                           Amount |-> payAmount(s, reply)])
          [] s = "loan-set-countersign" ->
                Merge(tx, [TransactionType |-> "LoanSet",
                           LoanBrokerID |-> rs.loanBrokerId,
                           PrincipalRequested |-> PrincipalRequested,
                           Counterparty |-> rs.wallets["borrower"],
                           Fee |-> reply.fee])
          [] s = "loan-set-multisig" ->
                Merge(tx, [TransactionType |-> "LoanSet",
                           LoanBrokerID |-> rs.loanBrokerId,
                           PrincipalRequested |-> PrincipalRequested,
                           Counterparty |-> rs.wallets["borrower"],
                           SigningPubKey |-> "",
                           Fee |-> MultiSigFee(reply.fee)])
          [] s = "signerlist-set" ->
                Merge(tx, [TransactionType |-> "SignerListSet", SignerQuorum |-> 1,
                           SignerEntries |-> SignerEntries(rs)])
          [] OTHER -> tx

NoCounterpartySignature == [SigningPubKey |-> "", signed |-> <<>>]

\* wallet.sign(tx) and wallet.sign(tx, true): the result carries the signed
\* blob.  A blob is the transaction with its signatures: TxnSignature names
\* the wallet that signed on its own, Signers the wallets that signed in
\* multi-sign mode.
sign(wallet, tx, multisign) ==
    [tx_blob |->
        IF multisign
        THEN [tx |-> tx, TxnSignature |-> "", Signers |-> <<wallet>>,
              CounterpartySignature |-> NoCounterpartySignature]
        ELSE [tx |-> tx, TxnSignature |-> wallet, Signers |-> <<>>,
              CounterpartySignature |-> NoCounterpartySignature]]

\* xrpl.multisign([blob]): the blob with the Signers of the blobs given.
multisign(blobs) == blobs[1]

\* xrpl.signLoanSetByCounterparty(wallet, blob): the result carries the blob
\* with a CounterpartySignature of the wallet made over the signatures the
\* blob came with.
signLoanSetByCounterparty(wallet, blob) ==
    [tx_blob |->
        [blob EXCEPT !.CounterpartySignature =
            [SigningPubKey |-> wallet, signed |-> <<blob.TxnSignature, blob.Signers>>]]]

Submission_BeforeCoSignature(rs, s, reply) ==
    LET prepared == Transaction(rs, s, reply)
    IN  CASE s = "loan-set-countersign" ->
                LET brokerSigned == sign(rs.wallets["broker"], prepared, FALSE)
                IN  brokerSigned.tx_blob
          [] s = "loan-set-multisig" ->
                LET lenderSigned == sign(rs.wallets["lender"], prepared, TRUE)
                    combinedBlob == multisign(<<lenderSigned.tx_blob>>)
                    finalBlob == signLoanSetByCounterparty(rs.wallets["borrower"],
                                                           combinedBlob)
                IN  finalBlob
          [] OTHER -> sign(rs.wallets[StepAccount(s)], prepared, FALSE).tx_blob

\* The argument of submitAndWait.  step_loanSet passes the tx_blob of the
\* result of signLoanSetByCounterparty, step_loanSetMultiSig the result.
Submission(rs, s, reply) ==
    LET prepared == Transaction(rs, s, reply)
    IN  CASE s = "loan-set-countersign" ->
                LET brokerSigned == sign(rs.wallets["broker"], prepared, FALSE)
                    counterpartySigned ==
                        signLoanSetByCounterparty(rs.wallets["borrower"],
                                                  brokerSigned.tx_blob)
                IN  counterpartySigned.tx_blob
          [] s = "loan-set-multisig" ->
                LET lenderSigned == sign(rs.wallets["lender"], prepared, TRUE)
                    combinedBlob == multisign(<<lenderSigned.tx_blob>>)
                    finalBlob == signLoanSetByCounterparty(rs.wallets["borrower"],
                                                           combinedBlob)
                IN  finalBlob
          [] OTHER -> sign(rs.wallets[StepAccount(s)], prepared, FALSE).tx_blob

\* History: submitted[s] are the arguments step s passed to submitAndWait.
\* With the client disconnected autofill throws and the call is not reached.
Submit(rs, s, reply) ==
    IF rs.connected
    THEN [rs EXCEPT !.submitted[s] = Append(@, Submission(rs, s, reply))]
    ELSE rs

\* The requests a step function makes before it builds its transaction,
\* with what it writes to the report about them.
Queried(rs, s, reply) ==
    CASE s \in {"loan-set-countersign", "loan-set-multisig"} ->
            addReport(rs, {<<"QUERY", q, IF q \in reply.failed THEN "query failed"
                                        ELSE "Pre-flight State">> :
                           q \in DiagQueries(s)})
      [] s = "loan-pay-early" ->
            IF "loan" \in reply.failed
            THEN addReport(rs, {<<"QUERY", "loan", "Could not query loan state">>})
            ELSE IF reply.principal >= 0
            THEN addReport(rs, {<<"QUERY", "loan", "Outstanding principal">>})
            ELSE rs
      [] s = "broker-cover-withdraw" ->
            IF "cover" \in reply.failed THEN rs
            ELSE addReport(rs, {<<"QUERY", "cover", "CoverAvailable">>})
      [] s = "vault-withdraw" ->
            IF "assets" \in reply.failed THEN rs
            ELSE addReport(rs, {<<"QUERY", "assets", "Vault AssetsAvailable">>})
      [] OTHER -> rs

TxStep(rs, s, reply, effect) ==
    IF reply.code = "exception"
    THEN CatchRethrow(Submit(rs, s, reply), s, <<s, "exception">>)
    ELSE LET txResult == TransactionResult(reply)
             r2 == Submit(addReport(effect, {<<"STEP", s, txResult>>}), s, reply)
             r3 == emitStep(r2, s, IF txResult = "tesSUCCESS" THEN "success" ELSE "error")
         IN  IF txResult # "tesSUCCESS"
             THEN CatchRethrow(r3, s, <<s, txResult>>)
             ELSE Fulfil(r3, s)

NoEffect(rs, reply) == rs

step_issuerSetup(rs, reply) == TxStep(rs, "issuer-setup", reply, NoEffect(rs, reply))

step_lenderTrustline(rs, reply) == TxStep(rs, "lender-trustline", reply, NoEffect(rs, reply))

step_brokerTrustline(rs, reply) == TxStep(rs, "broker-trustline", reply, NoEffect(rs, reply))

step_borrowerTrustline(rs, reply) == TxStep(rs, "borrower-trustline", reply, NoEffect(rs, reply))

LenderPaid(rs, reply) == emitParty(rs, [role |-> "lender", usdBalance |-> "10,000 USD"])

step_issuerSendsUSDLender(rs, reply) ==
    TxStep(rs, "issuer-sends-usd-lender", reply, LenderPaid(rs, reply))

BrokerPaid_WrongRole(rs, reply) ==
    emitParty(rs, [role |-> "lender", usdBalance |-> "1,000 USD"])

BrokerPaid(rs, reply) == emitParty(rs, [role |-> "broker", usdBalance |-> "1,000 USD"])

step_issuerSendsUSDBroker(rs, reply) ==
    TxStep(rs, "issuer-sends-usd-broker", reply, BrokerPaid(rs, reply))

BatchPaid(rs, reply) ==
    emitParty(emitParty(rs, [role |-> "lender", usdBalance |-> "10,000 USD"]),
              [role |-> "broker", usdBalance |-> "1,000 USD"])

step_batchIssuerPayments(rs, reply) ==
    TxStep(rs, "batch-issuer-payments", reply, BatchPaid(rs, reply))

VaultCreated(rs, reply) ==
    LET vaultId == FirstCreated(reply.nodes, "Vault")
    IN  Emit([rs EXCEPT !.vaultId = vaultId],
             [type |-> "state_update", data |-> [vaultId |-> vaultId]])

step_createVault(rs, reply) == TxStep(rs, "create-vault", reply, VaultCreated(rs, reply))

LoanBrokerCreated(rs, reply) ==
    LET loanBrokerId == FirstCreated(reply.nodes, "LoanBroker")
    IN  Emit([rs EXCEPT !.loanBrokerId = loanBrokerId],
             [type |-> "state_update", data |-> [loanBrokerId |-> loanBrokerId]])

step_createLoanBroker(rs, reply) ==
    TxStep(rs, "create-loan-broker", reply, LoanBrokerCreated(rs, reply))

LenderDeposited(rs, reply) ==
    emitParty(rs, [role |-> "lender", usdBalance |-> "5,000 USD (5,000 in Vault)"])

step_lenderDeposits(rs, reply) == TxStep(rs, "lender-deposits", reply, LenderDeposited(rs, reply))

step_brokerCoverDeposit(rs, reply) ==
    TxStep(rs, "broker-cover-deposit", reply, NoEffect(rs, reply))

\* ctx.loanId is set from the reply; the borrower's balance is updated on
\* success only.  The catch block also adds an ERROR line to the report.
LoanCreated(rs, reply) ==
    LET r1 == [rs EXCEPT !.loanId = FirstCreated(reply.nodes, "Loan")]
    IN  IF TransactionResult(reply) = "tesSUCCESS"
        THEN emitParty(r1, [role |-> "borrower", usdBalance |-> "1,000 USD (loan)"])
        ELSE r1

LoanSetStep(rs, s, reply) ==
    LET r0 == Queried(rs, s, reply)
        r1 == TxStep(r0, s, reply, LoanCreated(r0, reply))
    IN  IF r1.promise[s] = "rejected"
        THEN addReport(r1, {<<"ERROR", r1.err[s][1], r1.err[s][2]>>})
        ELSE r1

step_loanSet(rs, reply) == LoanSetStep(rs, "loan-set-countersign", reply)

step_loanSetMultiSig(rs, reply) == LoanSetStep(rs, "loan-set-multisig", reply)

step_signerListSet(rs, reply) == TxStep(rs, "signerlist-set", reply, NoEffect(rs, reply))

step_fundBorrowerForRepayment(rs, reply) ==
    TxStep(rs, "fund-borrower-repayment", reply, NoEffect(rs, reply))

step_loanPay(rs, s, reply) ==
    TxStep(Queried(rs, s, reply), s, reply, Queried(rs, s, reply))

step_loanManageDefault(rs, reply) == TxStep(rs, "loan-manage-default", reply, NoEffect(rs, reply))

step_loanDelete_ClearsId(rs, reply) ==
    TxStep(rs, "loan-delete", reply, [rs EXCEPT !.loanId = ""])

step_loanDelete(rs, reply) == TxStep(rs, "loan-delete", reply, NoEffect(rs, reply))

step_brokerCoverWithdraw(rs, reply) ==
    TxStep(Queried(rs, "broker-cover-withdraw", reply), "broker-cover-withdraw", reply,
           Queried(rs, "broker-cover-withdraw", reply))

step_loanBrokerDelete(rs, reply) == TxStep(rs, "loan-broker-delete", reply, NoEffect(rs, reply))

step_vaultWithdraw(rs, reply) ==
    TxStep(Queried(rs, "vault-withdraw", reply), "vault-withdraw", reply,
           Queried(rs, "vault-withdraw", reply))

step_vaultDelete(rs, reply) == TxStep(rs, "vault-delete", reply, NoEffect(rs, reply))

\* The validated ledger holds the object a step created (its transaction
\* was accepted) until the step deleting it has been accepted.
OnLedger(rs, label) ==
    CASE label = "Vault Object" ->
            rs.promise["create-vault"] = "fulfilled"
            /\ rs.promise["vault-delete"] # "fulfilled"
      [] label = "LoanBroker Object" ->
            rs.promise["create-loan-broker"] = "fulfilled"
            /\ rs.promise["loan-broker-delete"] # "fulfilled"
      [] label = "Loan Object" ->
            (\E s \in {"loan-set-countersign", "loan-set-multisig"} :
                rs.promise[s] = "fulfilled")
            /\ rs.promise["loan-delete"] # "fulfilled"

\* The details of the verification step about the four accounts: the XRP
\* balance or "Error fetching", and the USD balance when account_lines
\* answered.
AccountDetails(reply) ==
    {<<"XRP Balance", role, IF "account_info" \in reply.failed THEN "Error fetching"
                            ELSE "balance">> : role \in Roles}
    \cup (IF "account_lines" \in reply.failed THEN {}
          ELSE {<<"USD Balance", role, "balance">> : role \in Roles})

step_verifyStates_NoLookup(rs, reply) ==
    LET ids == {<<"Vault Object", rs.vaultId>>, <<"LoanBroker Object", rs.loanBrokerId>>,
                <<"Loan Object", rs.loanId>>}
        details == {<<"VERIFY", d[1], "object">> :
                        d \in {x \in ids : x[2] \notin {"", "undefined"}}}
                   \cup AccountDetails(reply)
        r1 == addReport(rs, details \cup {<<"STEP", "verify-states", "verified">>})
    IN  Fulfil(emitStep(r1, "verify-states", "success"), "verify-states")

\* The verification step submits nothing: it queries, records what it found
\* and ends with "success".  A ledger_entry lookup returns the object when
\* the request is answered and the object is on the validated ledger; it
\* throws otherwise, which leaves the placeholder.
step_verifyStates(rs, reply) ==
    LET found(label) == IF reply.code = "tesSUCCESS" /\ OnLedger(rs, label)
                        THEN "object" ELSE "Deleted or not found"
        ids == {<<"Vault Object", rs.vaultId>>, <<"LoanBroker Object", rs.loanBrokerId>>,
                <<"Loan Object", rs.loanId>>}
        details == {<<"VERIFY", d[1], found(d[1])>> :
                        d \in {x \in ids : x[2] \notin {"", "undefined"}}}
                   \cup AccountDetails(reply)
        r1 == addReport(rs, details \cup {<<"STEP", "verify-states", "verified">>})
    IN  Fulfil(emitStep(r1, "verify-states", "success"), "verify-states")

\* The step function of a step id, applied to the reply of its request.
StepFunction(rs, s, reply) ==
    CASE s = "issuer-setup" -> step_issuerSetup(rs, reply)
      [] s = "lender-trustline" -> step_lenderTrustline(rs, reply)
      [] s = "broker-trustline" -> step_brokerTrustline(rs, reply)
      [] s = "borrower-trustline" -> step_borrowerTrustline(rs, reply)
      [] s = "create-vault" -> step_createVault(rs, reply)
      [] s = "batch-issuer-payments" -> step_batchIssuerPayments(rs, reply)
      [] s = "issuer-sends-usd-lender" -> step_issuerSendsUSDLender(rs, reply)
      [] s = "issuer-sends-usd-broker" -> step_issuerSendsUSDBroker(rs, reply)
      [] s = "create-loan-broker" -> step_createLoanBroker(rs, reply)
      [] s = "lender-deposits" -> step_lenderDeposits(rs, reply)
      [] s = "broker-cover-deposit" -> step_brokerCoverDeposit(rs, reply)
      [] s = "loan-set-countersign" -> step_loanSet(rs, reply)
      [] s = "signerlist-set" -> step_signerListSet(rs, reply)
      [] s = "loan-set-multisig" -> step_loanSetMultiSig(rs, reply)
      [] s = "fund-borrower-repayment" -> step_fundBorrowerForRepayment(rs, reply)
      [] s \in {"loan-pay", "loan-pay-early"} -> step_loanPay(rs, s, reply)
      [] s = "loan-manage-default" -> step_loanManageDefault(rs, reply)
      [] s = "loan-delete" -> step_loanDelete(rs, reply)
      [] s = "broker-cover-withdraw" -> step_brokerCoverWithdraw(rs, reply)
      [] s = "loan-broker-delete" -> step_loanBrokerDelete(rs, reply)
      [] s = "vault-withdraw" -> step_vaultWithdraw(rs, reply)
      [] s = "vault-delete" -> step_vaultDelete(rs, reply)
      [] s = "verify-states" -> step_verifyStates(rs, reply)

step_fundWallets_IgnoresFailure(rs, r, role, ok) ==
    LET s == "fund-wallets"
        r1 == [rs EXCEPT !.faucet[role] = IF ok THEN "ok" ELSE "failed"]
    IN  IF \E x \in Roles : r1.faucet[x] = "pending"
        THEN r1
        ELSE LET r2 == [r1 EXCEPT !.wallets = WalletTable[r]]
             IN  Fulfil(emitStep(r2, s, "success"), s)

step_fundWallets_FirstWins(rs, r, role, ok) ==
    LET s == "fund-wallets"
        r1 == [rs EXCEPT !.faucet[role] = IF ok THEN "ok" ELSE "failed"]
    IN  IF ~ok
        THEN CatchRethrow(r1, s, <<s, "exception">>)
        ELSE LET r2 == [r1 EXCEPT !.wallets =
                          [x \in Roles |-> IF r1.faucet[x] = "ok"
                                           THEN WalletTable[r][x] ELSE ""]]
                 party(x) == [role |-> x, label |-> PartyLabel[x],
                              address |-> r2.wallets[x], seed |-> r2.wallets[x],
                              balance |-> "100 XRP"]
                 r3 == emitParty(emitParty(emitParty(emitParty(r2,
                           party("issuer")), party("lender")), party("borrower")),
                           party("broker"))
                 r4 == addReport(r3, {<<"FUND", x, r2.wallets[x]>> : x \in Roles})
             IN  Fulfil(emitStep(r4, s, "success"), s)

\* The wallet provisioning step when the faucet has answered request `role`:
\* Promise.all over the four requests is rejected by the first failure and
\* fulfilled by the last success.
step_fundWallets(rs, r, role, ok) ==
    LET s == "fund-wallets"
        r1 == [rs EXCEPT !.faucet[role] = IF ok THEN "ok" ELSE "failed"]
    IN  IF ~ok
        THEN CatchRethrow(r1, s, <<s, "exception">>)
        ELSE IF \E x \in Roles : r1.faucet[x] # "ok"
        THEN r1
        ELSE LET r2 == [r1 EXCEPT !.wallets = WalletTable[r]]
                 party(x) == [role |-> x, label |-> PartyLabel[x],
                              address |-> r2.wallets[x], seed |-> r2.wallets[x],
                              balance |-> "100 XRP"]
                 r3 == emitParty(emitParty(emitParty(emitParty(r2,
                           party("issuer")), party("lender")), party("borrower")),
                           party("broker"))
                 r4 == addReport(r3, {<<"FUND", x, r2.wallets[x]>> : x \in Roles})
             IN  Fulfil(emitStep(r4, s, "success"), s)

(***************************************************************************)
(* The orchestrator.  pc is the await the call is suspended at.            *)
(***************************************************************************)
Throw(rs, msg) == [rs EXCEPT !.thrown = msg]

Trustlines == {"lender-trustline", "broker-trustline", "borrower-trustline"}

Phase5 == {"create-loan-broker", "lender-deposits"}

PromiseAll_Race(rs, members, s) ==
    IF rs.promise[s] = "rejected" THEN "rejected" ELSE "fulfilled"

\* await Promise.all(members) when member s has settled: rejected by the
\* first rejection, fulfilled once every member is, pending otherwise.
PromiseAll(rs, members, s) ==
    IF rs.promise[s] = "rejected" THEN "rejected"
    ELSE IF \A m \in members : rs.promise[m] = "fulfilled" THEN "fulfilled"
    ELSE "pending"

StartPhase5(rs) ==
    [StartStep(StartStep(rs, "create-loan-broker"), "lender-deposits")
        EXCEPT !.pc = "phase5"]

AwaitVault_NoJoin(rs) == StartPhase5(rs)

\* await vaultPromise, reached with paymentsDone = true.
AwaitVault(rs) ==
    CASE rs.promise["create-vault"] = "fulfilled" -> StartPhase5(rs)
      [] rs.promise["create-vault"] = "rejected" -> Throw(rs, rs.err["create-vault"])
      [] OTHER -> [rs EXCEPT !.pc = "await-vault"]

\* The catch block around the bulk transfer: a note in the report, then the
\* transfer to the lender (the transfer to the broker follows it).
BatchFallback_Rethrow(rs) == Throw(rs, rs.err["batch-issuer-payments"])

BatchFallback_Parallel(rs) ==
    [StartStep(StartStep(rs, "issuer-sends-usd-lender"), "issuer-sends-usd-broker")
        EXCEPT !.pc = "issuer-sends-usd-lender"]

BatchFallback(rs) ==
    LET batchErr == rs.err["batch-issuer-payments"]
    IN  [StartStep(addReport(rs, {<<"NOTE", batchErr[1], batchErr[2]>>}),
                   "issuer-sends-usd-lender")
            EXCEPT !.pc = "issuer-sends-usd-lender"]

SetupPcs ==
    {"fund-wallets", "issuer-setup", "trustlines", "batch-issuer-payments",
     "issuer-sends-usd-lender", "issuer-sends-usd-broker", "await-vault", "phase5",
     "broker-cover-deposit"}

\* runSharedSetup resumed because step s has settled.
runSharedSetup(rs, s) ==
    CASE rs.pc = "fund-wallets" /\ s = "fund-wallets" ->
            IF rs.promise[s] = "rejected" THEN Throw(rs, rs.err[s])
            ELSE [StartStep(rs, "issuer-setup") EXCEPT !.pc = "issuer-setup"]
      [] rs.pc = "issuer-setup" /\ s = "issuer-setup" ->
            IF rs.promise[s] = "rejected" THEN Throw(rs, rs.err[s])
            ELSE [StartStep(StartStep(StartStep(rs, "lender-trustline"),
                      "broker-trustline"), "borrower-trustline")
                    EXCEPT !.pc = "trustlines"]
      [] rs.pc = "trustlines" /\ s \in Trustlines ->
            CASE PromiseAll(rs, Trustlines, s) = "rejected" -> Throw(rs, rs.err[s])
              [] PromiseAll(rs, Trustlines, s) = "fulfilled" ->
                    [StartStep(StartStep(rs, "create-vault"), "batch-issuer-payments")
                        EXCEPT !.pc = "batch-issuer-payments"]
              [] OTHER -> rs
      [] rs.pc = "batch-issuer-payments" /\ s = "batch-issuer-payments" ->
            IF rs.promise[s] = "rejected" THEN BatchFallback(rs)
            ELSE AwaitVault([rs EXCEPT !.paymentsDone = TRUE])
      [] rs.pc = "issuer-sends-usd-lender" /\ s = "issuer-sends-usd-lender" ->
            IF rs.promise[s] = "rejected" THEN Throw(rs, rs.err[s])
            ELSE [StartStep(rs, "issuer-sends-usd-broker")
                    EXCEPT !.pc = "issuer-sends-usd-broker"]
      [] rs.pc = "issuer-sends-usd-broker" /\ s = "issuer-sends-usd-broker" ->
            IF rs.promise[s] = "rejected" THEN Throw(rs, rs.err[s])
            ELSE AwaitVault([rs EXCEPT !.paymentsDone = TRUE])
      [] rs.pc = "await-vault" /\ s = "create-vault" -> AwaitVault(rs)
      [] rs.pc = "phase5" /\ s \in Phase5 ->
            CASE PromiseAll(rs, Phase5, s) = "rejected" -> Throw(rs, rs.err[s])
              [] PromiseAll(rs, Phase5, s) = "fulfilled" ->
                    [StartStep(rs, "broker-cover-deposit")
                        EXCEPT !.pc = "broker-cover-deposit"]
              [] OTHER -> rs
      [] rs.pc = "broker-cover-deposit" /\ s = "broker-cover-deposit" ->
            IF rs.promise[s] = "rejected" THEN Throw(rs, rs.err[s])
            ELSE [rs EXCEPT !.pc = "setup-done"]
      [] OTHER -> rs

\* The finally block: disconnect is awaited when the client is connected.
Finally(rs) ==
    IF rs.connected THEN [rs EXCEPT !.pc = "closing"]
    ELSE [rs EXCEPT !.pc = "done", !.returned = TRUE]

FlowComplete(rs) ==
    LET r1 == addReport(rs,
                 {<<"COMPLETED", "scenario", rs.scenario>>,
                  <<"SUMMARY", "Vault ID",
                    IF rs.vaultId \in {"", "undefined"} THEN "N/A" ELSE rs.vaultId>>,
                  <<"SUMMARY", "LoanBroker",
                    IF rs.loanBrokerId \in {"", "undefined"} THEN "N/A" ELSE rs.loanBrokerId>>,
                  <<"SUMMARY", "Loan ID",
                    IF rs.loanId \in {"", "undefined"} THEN "N/A" ELSE rs.loanId>>}
                 \cup {<<"SUMMARY", x, rs.wallets[x]>> : x \in Roles})
        r2 == Emit(r1, [type |-> "flow_complete", data |-> [report |-> r1.report]])
    IN  Finally([r2 EXCEPT !.terminal = Append(@, "flow_complete"),
                           !.result = r1.report])

FlowError_ReturnsEarlierReport(rs, msg) ==
    LET r1 == addReport(rs, {<<"FLOW FAILED", msg[1], msg[2]>>})
        r2 == Emit(r1, [type |-> "flow_error",
                        data |-> [message |-> msg, report |-> r1.report]])
    IN  Finally([r2 EXCEPT !.terminal = Append(@, "flow_error"),
                           !.flowMessage = msg,
                           !.result = rs.report])

\* The catch block of runLendingFlow: result is the string it returns.
FlowError(rs, msg) ==
    LET r1 == addReport(rs, {<<"FLOW FAILED", msg[1], msg[2]>>})
        r2 == Emit(r1, [type |-> "flow_error",
                        data |-> [message |-> msg, report |-> r1.report]])
    IN  Finally([r2 EXCEPT !.terminal = Append(@, "flow_error"),
                           !.flowMessage = msg,
                           !.result = r1.report])

\* The scenario tail resumed because step s has settled (or entered, when
\* the shared setup has just returned).
RunTail(rs, s) ==
    LET tail == ScenarioTail(rs.scenario)
    IN  CASE rs.pc = "setup-done" ->
                [StartStep(rs, tail[1]) EXCEPT !.pc = "tail", !.tailIdx = 1]
          [] rs.pc = "tail" /\ s = tail[rs.tailIdx] ->
                IF rs.promise[s] = "rejected" THEN Throw(rs, rs.err[s])
                ELSE IF rs.tailIdx = Len(tail) THEN [rs EXCEPT !.pc = "tail-done"]
                ELSE [StartStep(rs, tail[rs.tailIdx + 1])
                        EXCEPT !.tailIdx = rs.tailIdx + 1]
          [] OTHER -> rs

\* runLendingFlow after the reply to step s: resumed when the promise of s
\* has settled, left suspended while it is pending.
runLendingFlow(rs, s) ==
    LET r1 == IF rs.pc \in SetupPcs THEN runSharedSetup(rs, s) ELSE rs
        r2 == IF r1.thrown = NoMessage THEN RunTail(r1, s) ELSE r1
    IN  IF rs.promise[s] = "pending" THEN rs
        ELSE IF r2.thrown # NoMessage THEN FlowError(r2, r2.thrown)
        ELSE IF r2.pc = "tail-done" THEN FlowComplete(r2)
        ELSE r2

(***************************************************************************)
(* The dashboard.                                                          *)
(***************************************************************************)
initialState ==
    [status |-> "idle",
     parties |-> [i \in 1..4 |-> [role |-> RoleOrder[i], label |-> PartyLabel[RoleOrder[i]]]],
     steps |-> <<>>,
     network |-> "wss://s.devnet.rippletest.net:51233"]

findIndex_NeverFound(steps, id) == 0

\* prev.steps.findIndex((s) => s.id === step.id), 0 for -1.
findIndex(steps, id) ==
    IF \E i \in 1..Len(steps) : steps[i].id = id
    THEN CHOOSE i \in 1..Len(steps) :
            steps[i].id = id /\ \A j \in 1..(i - 1) : steps[j].id # id
    ELSE 0

emit_MergesIntoEveryParty(d, event) ==
    CASE event.type = "step_update" ->
            LET existing == findIndex(d.state.steps, event.data.id)
                newSteps == IF existing > 0
                            THEN [d.state.steps EXCEPT ![existing] = event.data]
                            ELSE Append(d.state.steps, event.data)
            IN  [d EXCEPT !.state = Merge(d.state, [steps |-> newSteps])]
      [] event.type = "party_update" ->
            LET parties == [i \in DOMAIN d.state.parties |->
                              Merge(d.state.parties[i], event.data)]
            IN  [d EXCEPT !.state = Merge(d.state, [parties |-> parties])]
      [] event.type = "state_update" ->
            [d EXCEPT !.state = Merge(d.state, event.data)]
      [] event.type = "flow_complete" ->
            [state |-> Merge(d.state, [status |-> "completed"]),
             rawReport |-> event.data.report]
      [] event.type = "flow_error" ->
            [state |-> Merge(d.state, [status |-> "error",
                                       errorMessage |-> event.data.message]),
             rawReport |-> event.data.report]
      [] OTHER -> d

mergeParty_Replaces(p, party) == party

\* { ...p, ...party }
mergeParty(p, party) == Merge(p, party)

\* The emit closure of startFlow applied to the dashboard d = [state, rawReport].
emit(d, event) ==
    CASE event.type = "step_update" ->
            LET existing == findIndex(d.state.steps, event.data.id)
                newSteps == IF existing > 0
                            THEN [d.state.steps EXCEPT ![existing] = event.data]
                            ELSE Append(d.state.steps, event.data)
            IN  [d EXCEPT !.state = Merge(d.state, [steps |-> newSteps])]
      [] event.type = "party_update" ->
            LET parties == [i \in DOMAIN d.state.parties |->
                              IF d.state.parties[i].role = event.data.role
                              THEN mergeParty(d.state.parties[i], event.data)
                              ELSE d.state.parties[i]]
            IN  [d EXCEPT !.state = Merge(d.state, [parties |-> parties])]
      [] event.type = "state_update" ->
            [d EXCEPT !.state = Merge(d.state, event.data)]
      [] event.type = "flow_complete" ->
            [state |-> Merge(d.state, [status |-> "completed"]),
             rawReport |-> event.data.report]
      [] event.type = "flow_error" ->
            [state |-> Merge(d.state, [status |-> "error",
                                       errorMessage |-> event.data.message]),
             rawReport |-> event.data.report]
      [] OTHER -> d

RECURSIVE EmitAll(_, _)
EmitAll(d, events) ==
    IF events = <<>> THEN d ELSE EmitAll(emit(d, Head(events)), Tail(events))

\* A call is alive until it has returned and none of its step functions is
\* pending any more.
Alive(rs) ==
    /\ rs.pc # "none"
    /\ \/ ~rs.returned
       \/ \E s \in StepIds : rs.promise[s] = "pending"

\* The events call r emitted in this step reach the session; the call's
\* record is stored.
Deliver(r, rs) ==
    LET d == EmitAll([state |-> state, rawReport |-> rawReport], rs.out)
    IN  /\ run' = [run EXCEPT ![r] = [rs EXCEPT !.out = <<>>, !.thrown = NoMessage]]
        /\ state' = d.state
        /\ rawReport' = d.rawReport
        /\ lastEmitter' = IF rs.out # <<>> THEN r ELSE lastEmitter
        /\ UNCHANGED route

\* The files a user can import: exports of earlier sessions.
ImportFiles ==
    {[version |-> 1, scenarioId |-> "loan-payment",
      state |-> [status |-> "completed",
                 parties |-> [i \in 1..4 |->
                                [role |-> RoleOrder[i], label |-> PartyLabel[RoleOrder[i]],
                                 address |-> "rSaved", seed |-> "rSaved",
                                 balance |-> "100 XRP"]],
                 steps |-> <<[id |-> "fund-wallets", status |-> "success"],
                             [id |-> "loan-pay", status |-> "success"]>>,
                 network |-> "wss://s.devnet.rippletest.net:51233",
                 scenarioId |-> "loan-payment"],
      report |-> {<<"COMPLETED", "scenario", "loan-payment">>}],
     [version |-> 1, scenarioId |-> "loan-creation",
      state |-> [status |-> "running",
                 parties |-> initialState.parties,
                 steps |-> <<[id |-> "fund-wallets", status |-> "running"]>>,
                 network |-> "wss://s.devnet.rippletest.net:51233",
                 scenarioId |-> "loan-creation"],
      report |-> {}]}

\* reader.onload of handleImport for a valid file.
handleImport(file) ==
    /\ state' = file.state
    /\ rawReport' = file.report
    /\ selectedScenario' = file.scenarioId
    /\ sessionRun' = 0
    /\ lastEmitter' = 0
    /\ UNCHANGED <<run, route>>

startFlow_KeepsSession(sc) ==
    /\ state.status # "running"
    /\ selectedScenario' = sc
    /\ \E r \in Slots :
        /\ ~Alive(run[r])
        /\ \A q \in 1..(r - 1) : Alive(run[q])
        /\ LET kept == Merge(state, [status |-> "running", scenarioId |-> sc])
               r1 == addReport([FreshContext EXCEPT !.slot = r,
                                                   !.scenario = sc,
                                                   !.pc = "connect"],
                               {<<"HEADER", "scenario", sc>>})
               r2 == Emit(r1, [type |-> "state_update",
                               data |-> [scenarioId |-> sc,
                                         totalSteps |-> getScenarioStepCount(sc)]])
               d == EmitAll([state |-> kept, rawReport |-> {}], r2.out)
           IN  /\ run' = [run EXCEPT ![r] = [r2 EXCEPT !.out = <<>>]]
               /\ state' = d.state
               /\ rawReport' = d.rawReport
               /\ sessionRun' = r
               /\ lastEmitter' = r
               /\ UNCHANGED route

\* A scenario button, then the Run button (both disabled while the session is
\* running): setSelectedScenario(sc), then the session is reset and
\* runLendingFlow is called; it runs up to `await client.connect()`.
startFlow(sc) ==
    /\ state.status # "running"
    /\ selectedScenario' = sc
    /\ \E r \in Slots :
        /\ ~Alive(run[r])
        /\ \A q \in 1..(r - 1) : Alive(run[q])
        /\ LET fresh == Merge(initialState,
                              [status |-> "running", scenarioId |-> sc])
               r1 == addReport([FreshContext EXCEPT !.slot = r,
                                                   !.scenario = sc,
                                                   !.pc = "connect"],
                               {<<"HEADER", "scenario", sc>>})
               r2 == Emit(r1, [type |-> "state_update",
                               data |-> [scenarioId |-> sc,
                                         totalSteps |-> getScenarioStepCount(sc)]])
               d == EmitAll([state |-> fresh, rawReport |-> {}], r2.out)
           IN  /\ run' = [run EXCEPT ![r] = [r2 EXCEPT !.out = <<>>]]
               /\ state' = d.state
               /\ rawReport' = d.rawReport
               /\ sessionRun' = r
               /\ lastEmitter' = r
               /\ UNCHANGED route

(***************************************************************************)
(* The server route GET /api/run-flow (registerRoutes) with the legacy     *)
(* sequential runLendingFlow it calls.  The request is in route: pc is the *)
(* await the run is suspended at, step the index of the legacy step        *)
(* awaited, closed the flag of the req "close" handler, ended the number   *)
(* of res.end() calls, lastWrite the last event given to res.write, and    *)
(* closedAt (history) the position of the run when the client went away.   *)
(***************************************************************************)
LegacySteps ==
    <<"step1_fundWallets", "step2_issuerSetup", "step3_lenderTrustline",
      "step4_issuerSendsUSD", "step5_brokerTrustline", "step4b_issuerSendsUSDBroker",
      "step6_createVault", "step7_createLoanBroker", "step8_lenderDeposits",
      "step9_borrowerTrustline", "step10_brokerCoverDeposit",
      "step11_loanSetWithCounterparty", "step12_verifyStates">>

\* The stepId of the legacy step functions, in the order of LegacySteps.
LegacyStepIds ==
    <<"fund-wallets", "issuer-setup", "lender-trustline", "issuer-sends-usd",
      "broker-trustline", "issuer-sends-usd-broker", "create-vault",
      "create-loan-broker", "lender-deposits", "borrower-trustline",
      "broker-cover-deposit", "loan-set-countersign", "verify-states">>

InitialRoute ==
    [pc |-> "idle", step |-> 0, connected |-> FALSE, outcome |-> "none",
     message |-> NoMessage, closed |-> FALSE, closedAt |-> <<>>, ended |-> 0,
     lastWrite |-> <<>>, records |-> {}]

\* const emit = (event) => { try { res.write(...) } catch {} }
\* records (history) are the ids of the step_update events written: the
\* step records a consumer of the stream holds.
routeEmit(rt, type, id, status) ==
    [rt EXCEPT !.lastWrite = <<type, id, status>>,
               !.records = IF type = "step_update" THEN @ \cup {id} ELSE @]

OnSettled_EndsAlways(rt) == [rt EXCEPT !.pc = "settled", !.ended = @ + 1]

\* runLendingFlow(emit).then(...).catch(...): the promise of the run has
\* settled; the response is ended unless the client has gone away.
OnSettled(rt) ==
    IF ~rt.closed THEN [rt EXCEPT !.pc = "settled", !.ended = @ + 1]
    ELSE [rt EXCEPT !.pc = "settled"]

\* The finally block of the legacy run: disconnect is awaited when the
\* client is connected; the run returns otherwise.
LegacyFinally(rt) ==
    IF rt.connected THEN [rt EXCEPT !.pc = "closing"] ELSE OnSettled(rt)

LegacyFlowError(rt, msg) ==
    LegacyFinally([routeEmit(rt, "flow_error", msg[1], msg[2])
                      EXCEPT !.outcome = "failed", !.message = msg])

LegacyFlowComplete(rt) ==
    LegacyFinally([routeEmit(rt, "flow_complete", "", "") EXCEPT !.outcome = "completed"])

\* app.get("/api/run-flow", ...): the headers are written, the "close"
\* handler is registered and runLendingFlow runs up to `await connect()`.
RunFlowRequest ==
    /\ route.pc = "idle"
    /\ route' = [route EXCEPT !.pc = "connect"]
    /\ UNCHANGED <<run, state, rawReport, selectedScenario, sessionRun, lastEmitter>>

\* client.connect() of the legacy run has settled.
RouteConnectReply(ok) ==
    /\ route.pc = "connect"
    /\ route' = IF ok
                THEN [routeEmit(route, "step_update", LegacyStepIds[1], "running")
                         EXCEPT !.pc = "step", !.step = 1, !.connected = TRUE]
                ELSE LegacyFlowError(route, <<"connect", "exception">>)
    /\ UNCHANGED <<run, state, rawReport, selectedScenario, sessionRun, lastEmitter>>

\* The network has answered the legacy step awaited: the step emits its
\* terminal event; the run goes on to the next step, completes after the
\* last one (the verification step does not throw), or fails.
RouteStepReply(code) ==
    /\ route.pc = "step"
    /\ LET k == route.step
           id == LegacyStepIds[k]
           ok == code = "tesSUCCESS"
           r1 == routeEmit(route, "step_update", id, IF ok THEN "success" ELSE "error")
       IN  route' = IF ok \/ k = Len(LegacySteps)
                    THEN IF k < Len(LegacySteps)
                         THEN [routeEmit(r1, "step_update", LegacyStepIds[k + 1], "running")
                                  EXCEPT !.step = k + 1]
                         ELSE LegacyFlowComplete(r1)
                    ELSE LegacyFlowError(r1, <<id, code>>)
    /\ UNCHANGED <<run, state, rawReport, selectedScenario, sessionRun, lastEmitter>>

\* client.disconnect() of the finally block has settled: the run returns.
RouteDisconnectReply ==
    /\ route.pc = "closing"
    /\ route' = OnSettled([route EXCEPT !.connected = FALSE])
    /\ UNCHANGED <<run, state, rawReport, selectedScenario, sessionRun, lastEmitter>>

\* req.on("close", () => { closed = true }): the client has gone away.
RequestClose ==
    /\ route.pc # "idle"
    /\ ~route.closed
    /\ route' = [route EXCEPT !.closed = TRUE, !.closedAt = <<route.pc, route.step>>]
    /\ UNCHANGED <<run, state, rawReport, selectedScenario, sessionRun, lastEmitter>>

InitRoute ==
    /\ run = [r \in Slots |-> FreshContext]
    /\ state = initialState
    /\ rawReport = {}
    /\ selectedScenario = "loan-creation"
    /\ sessionRun = 0
    /\ lastEmitter = 0
    /\ route = InitialRoute

\* The replies of the network to the legacy run; the network answers every
\* request in the end.
RunAdvances ==
    \/ \E ok \in BOOLEAN : RouteConnectReply(ok)
    \/ \E code \in Outcomes : RouteStepReply(code)
    \/ RouteDisconnectReply

NextRoute ==
    \/ RunFlowRequest
    \/ RunAdvances
    \/ RequestClose

SpecRoute == InitRoute /\ [][NextRoute]_vars /\ WF_vars(RunAdvances)

(***************************************************************************)
(* The replies of the network.                                             *)
(***************************************************************************)
\* client.connect() has settled: runSharedSetup starts with the wallet
\* provisioning step, or the catch block of runLendingFlow runs.
ConnectReply(r, ok) ==
    /\ run[r].pc = "connect"
    /\ IF ok
       THEN LET r1 == addReport([run[r] EXCEPT !.connected = TRUE],
                                {<<"CONNECTED", "", "">>})
                r2 == [StartStep(r1, "fund-wallets")
                          EXCEPT !.pc = "fund-wallets",
                                 !.faucet = [x \in Roles |-> "pending"]]
            IN  Deliver(r, r2)
       ELSE Deliver(r, FlowError(run[r], <<"connect", "exception">>))
    /\ UNCHANGED <<selectedScenario, sessionRun>>

\* The faucet has answered one of the four fundWallet requests.
FaucetReply(r, role, ok) ==
    /\ run[r].promise["fund-wallets"] = "pending"
    /\ run[r].faucet[role] = "pending"
    /\ Deliver(r, runLendingFlow(step_fundWallets(run[r], r, role, ok), "fund-wallets"))
    /\ UNCHANGED <<selectedScenario, sessionRun>>

\* The ledger has answered the request of step s.
StepReply(r, s) ==
    /\ s # "fund-wallets"
    /\ run[r].promise[s] = "pending"
    /\ \E reply \in Replies(run[r], s) :
          Deliver(r, runLendingFlow(StepFunction(Replied(run[r], s, reply), s, reply), s))
    /\ UNCHANGED <<selectedScenario, sessionRun>>

\* client.disconnect() of the finally block has settled: the call returns.
DisconnectReply(r) ==
    /\ run[r].pc = "closing"
    /\ run' = [run EXCEPT ![r].pc = "done", ![r].connected = FALSE,
                          ![r].returned = TRUE]
    /\ UNCHANGED <<state, rawReport, selectedScenario, sessionRun, lastEmitter, route>>

SetupReply(r) == \E s \in SharedStepIds : StepReply(r, s)

TailReply(r) == \E s \in TailStepIds : StepReply(r, s)

Init ==
    /\ run = [r \in Slots |-> FreshContext]
    /\ state = initialState
    /\ rawReport = {}
    /\ selectedScenario = "loan-creation"
    /\ sessionRun = 0
    /\ lastEmitter = 0
    /\ route = InitialRoute

Next ==
    \/ \E file \in ImportFiles : handleImport(file)
    \/ \E sc \in ScenarioIds : startFlow(sc)
    \/ \E r \in Slots : \E ok \in BOOLEAN : ConnectReply(r, ok)
    \/ \E r \in Slots : \E role \in Roles : \E ok \in BOOLEAN : FaucetReply(r, role, ok)
    \/ \E r \in Slots : SetupReply(r)
    \/ \E r \in Slots : TailReply(r)
    \/ \E r \in Slots : DisconnectReply(r)

Spec == Init /\ [][Next]_vars

(***************************************************************************)
(* A step on its own: the step function is called on a connected client    *)
(* with funded wallets and the ledger gives any outcome, a result without  *)
(* a code ("none") included, and any answer to the diagnostic queries.     *)
(***************************************************************************)
TxStepIds == StepIds \ {"fund-wallets", "verify-states"}

AloneStepIds == StepIds \ {"fund-wallets"}

AllOutcomes == Outcomes \cup {"tefPAST_SEQ", "none"}

\* meta.AffectedNodes of any validated reply to a creating transaction: the
\* list may be empty, may hold created nodes of other types, modified and
\* deleted nodes of the expected type, and more than one created node of
\* the expected type.
AnyAffectedNodes(s, c) ==
    IF c \in {"exception", "none"} \/ CreatedType(s) = ""
    THEN AffectedNodesOf(s, c)
    ELSE LET node(k, t, i) == [kind |-> k, LedgerEntryType |-> t, LedgerIndex |-> i]
             T == CreatedType(s)
             A == LedgerIndexOf(T)
         IN  AffectedNodesOf(s, "tesSUCCESS") \cup
             {<<>>,
              <<node("CreatedNode", "RippleState", "OBJECT-A"),
                node("CreatedNode", T, A), node("CreatedNode", T, "OBJECT-B")>>,
              <<node("DeletedNode", T, "OBJECT-B"), node("ModifiedNode", T, "OBJECT-B"),
                node("CreatedNode", T, A)>>,
              <<node("ModifiedNode", T, "OBJECT-B"),
                node("CreatedNode", "RippleState", "OBJECT-A")>>,
              <<node("CreatedNode", T, "OBJECT-B"), node("CreatedNode", T, A)>>}

AnyReplies(s) ==
    UNION {{Merge([code |-> c, nodes |-> n], a) :
              n \in AnyAffectedNodes(s, c),
              a \in Answers(s, SUBSET DiagQueries(s), -1..MaxPrincipal, BOOLEAN,
                            {0, 10, 12})} :
           c \in IF s = "verify-states" THEN {"tesSUCCESS", "exception"}
                 ELSE AllOutcomes}

InitStep ==
    /\ \E s \in AloneStepIds :
          run = [r \in Slots |->
                   [StartStep([FreshContext EXCEPT !.slot = r, !.pc = "step",
                                                   !.connected = TRUE,
                                                   !.wallets = WalletTable[r]], s)
                       EXCEPT !.out = <<>>]]
    /\ state = Merge(initialState, [status |-> "running"])
    /\ rawReport = {}
    /\ selectedScenario = "loan-creation"
    /\ sessionRun = 1
    /\ lastEmitter = 1
    /\ route = InitialRoute

StepReturns(r, s) ==
    /\ s \in AloneStepIds
    /\ run[r].promise[s] = "pending"
    /\ \E reply \in AnyReplies(s) :
          Deliver(r, StepFunction(Replied(run[r], s, reply), s, reply))
    /\ UNCHANGED <<selectedScenario, sessionRun>>

NextStep == \E r \in Slots : \E s \in AloneStepIds : StepReturns(r, s)

SpecStep == InitStep /\ [][NextStep]_vars

(***************************************************************************)
(* Vocabulary of the properties.                                           *)
(***************************************************************************)
\* The step function of s has been called (its "running" event is out).
Started(rs, s) == rs.promise[s] # "none"

\* Between the "running" event of s and the end of its step function.
InFlight(rs, s) == rs.promise[s] = "pending"

HasTerminalEvent(rs, s) ==
    \E i \in 1..Len(rs.ev[s]) : rs.ev[s][i] \in {"success", "error"}

Succeeded(rs, s) ==
    /\ rs.promise[s] = "fulfilled"
    /\ rs.ev[s] # <<>>
    /\ rs.ev[s][Len(rs.ev[s])] = "success"

Failed(rs, s) == rs.promise[s] = "rejected"

Batch == "batch-issuer-payments"

PayLender == "issuer-sends-usd-lender"

PayBroker == "issuer-sends-usd-broker"

Phase4 == {"create-vault", Batch, PayLender, PayBroker}

ParallelMembers == Trustlines \cup Phase4 \cup Phase5

\* The steps that use ctx.vaultId.
VaultUsers ==
    {"create-loan-broker", "lender-deposits", "loan-set-countersign",
     "loan-set-multisig", "vault-withdraw", "vault-delete", "verify-states"}

(***************************************************************************)
(* C1.  Every step function emits exactly one "running" step_update and,   *)
(* after it, exactly one terminal one ("success" or "error"), whatever the *)
(* reply: accepted, rejected with a code, or an exception.                 *)
(***************************************************************************)
C1_OneRunningOneTerminal ==
    \A r \in Slots : \A s \in StepIds :
        /\ InFlight(run[r], s) => run[r].ev[s] = <<"running">>
        /\ run[r].promise[s] \in {"fulfilled", "rejected"} =>
              run[r].ev[s] \in {<<"running", "success">>, <<"running", "error">>}

(***************************************************************************)
(* C2.  A parallel phase is not left, neither by starting a later step nor *)
(* by the run-terminal event, while a member step that was launched is     *)
(* still in flight.                                                        *)
(***************************************************************************)
C2_PhaseJoinedBeforeLeft ==
    \A r \in Slots :
        LET rs == run[r]
        IN  /\ (rs.terminal # <<>> \/ \E s \in Phase4 : Started(rs, s)) =>
                  \A m \in Trustlines : ~InFlight(rs, m)
            /\ (rs.terminal # <<>> \/ \E s \in Phase5 : Started(rs, s)) =>
                  \A m \in Phase4 : ~InFlight(rs, m)
            /\ (rs.terminal # <<>> \/ Started(rs, "broker-cover-deposit")) =>
                  \A m \in Phase5 : ~InFlight(rs, m)

(***************************************************************************)
(* C3.  Once a member step of a parallel phase has failed (the bulk        *)
(* transfer, which has a fallback, aside), the orchestrator starts no      *)
(* further step: a failed vault creation keeps the fallback transfers from *)
(* starting.                                                               *)
(***************************************************************************)
C3_NoStartAfterMemberFailure ==
    [][\A r \in Slots :
          (\E m \in ParallelMembers \ {Batch} : Failed(run[r], m)) =>
              \A s \in StepIds : ~Started(run[r], s) => ~Started(run'[r], s)]_vars

(***************************************************************************)
(* C4.  Every event applied to the session state was emitted by the call   *)
(* that startFlow made for that session.                                   *)
(***************************************************************************)
C4_OnlyEventsOfSessionRun == lastEmitter = sessionRun

(***************************************************************************)
(* C5.  No two steps whose transactions are issued for the same account    *)
(* are in flight at the same time.                                         *)
(***************************************************************************)
C5_DistinctAccountsInFlight ==
    \A r \in Slots : \A s, t \in StepIds :
        (s # t /\ InFlight(run[r], s) /\ InFlight(run[r], t) /\ StepAccount(s) # "") =>
            StepAccount(s) # StepAccount(t)

\* On the fallback path, vault creation and a fallback transfer are in flight
\* together.
C5_Witness ==
    \E r \in Slots : InFlight(run[r], "create-vault") /\ InFlight(run[r], PayBroker)

(***************************************************************************)
(* C6.  No step that uses the vault identifier starts before the vault     *)
(* creation step has emitted its terminal event.                           *)
(***************************************************************************)
C6_VaultUsersAfterVaultCreation ==
    \A r \in Slots : \A s \in VaultUsers :
        Started(run[r], s) => HasTerminalEvent(run[r], "create-vault")

C6_Witness == \E r \in Slots : Started(run[r], "vault-delete")

(***************************************************************************)
(* C7.  The shared setup runs its six phases in order with a barrier       *)
(* between them: a step of a phase starts only when every step of the      *)
(* phase before it has succeeded (for the payments: the bulk transfer, or  *)
(* both fallback transfers).                                               *)
(***************************************************************************)
C7_PhaseBarriers ==
    \A r \in Slots :
        LET rs == run[r]
        IN  /\ Started(rs, "issuer-setup") => Succeeded(rs, "fund-wallets")
            /\ (\E s \in Trustlines : Started(rs, s)) => Succeeded(rs, "issuer-setup")
            /\ (\E s \in Phase4 : Started(rs, s)) =>
                  \A m \in Trustlines : Succeeded(rs, m)
            /\ (\E s \in Phase5 : Started(rs, s)) =>
                  /\ Succeeded(rs, "create-vault")
                  /\ \/ Succeeded(rs, Batch)
                     \/ Succeeded(rs, PayLender) /\ Succeeded(rs, PayBroker)
            /\ Started(rs, "broker-cover-deposit") =>
                  \A m \in Phase5 : Succeeded(rs, m)

C7_Witness ==
    \E r \in Slots : Started(run[r], "broker-cover-deposit") /\ Failed(run[r], Batch)

(***************************************************************************)
(* C8.  When a step other than the bulk transfer fails, the failure        *)
(* reaches the orchestrator, which starts none of the remaining steps and  *)
(* emits flow_error carrying the message of a failed step: once such a     *)
(* step has failed no step starts any more, and the call returns only      *)
(* after that flow_error.                                                  *)
(***************************************************************************)
C8_FailureEndsRun ==
    [][\A r \in Slots :
          (\E s \in StepIds \ {Batch} : Failed(run[r], s)) =>
              /\ \A t \in StepIds : Started(run'[r], t) => Started(run[r], t)
              /\ run'[r].returned =>
                    /\ run'[r].terminal = <<"flow_error">>
                    /\ \E f \in StepIds \ {Batch} :
                          Failed(run'[r], f) /\ run'[r].flowMessage = run'[r].err[f]]_vars

(***************************************************************************)
(* C9.  When the bulk transfer fails the orchestrator notes it in the      *)
(* report, runs the transfer to the lender and then the one to the broker, *)
(* and when both have succeeded goes on to the next phase; the run never   *)
(* ends in error with the failure of the bulk transfer.                    *)
(***************************************************************************)
C9_BatchFallback ==
    \A r \in Slots :
        LET rs == run[r]
        IN  Failed(rs, Batch) =>
              /\ <<"NOTE", rs.err[Batch][1], rs.err[Batch][2]>> \in rs.report
              /\ Started(rs, PayLender)
              /\ Started(rs, PayBroker) => Succeeded(rs, PayLender)
              /\ (Succeeded(rs, PayLender) /\ Succeeded(rs, PayBroker)) =>
                    /\ rs.paymentsDone
                    /\ Succeeded(rs, "create-vault") =>
                          \A s \in Phase5 : Started(rs, s)
              /\ rs.flowMessage[1] # Batch

C9_Witness ==
    \E r \in Slots : Failed(run[r], Batch) /\ Started(run[r], "create-loan-broker")

(***************************************************************************)
(* C10.  At the end of the payments phase the lender shows 10,000 USD and  *)
(* the broker 1,000 USD, on the bulk-transfer path and on the fallback     *)
(* path alike.                                                             *)
(***************************************************************************)
C10_SameBalancesOnBothPaths ==
    \A r \in Slots :
        (run[r].paymentsDone /\ ~Started(run[r], "lender-deposits")) =>
            /\ "usdBalance" \in DOMAIN run[r].shown["lender"]
            /\ run[r].shown["lender"].usdBalance = "10,000 USD"
            /\ "usdBalance" \in DOMAIN run[r].shown["broker"]
            /\ run[r].shown["broker"].usdBalance = "1,000 USD"

C10_Witness ==
    \E r \in Slots :
        /\ run[r].paymentsDone
        /\ Failed(run[r], Batch)
        /\ ~Started(run[r], "lender-deposits")

(***************************************************************************)
(* C11.  A transaction step ends with status "success" exactly when the    *)
(* ledger's result code is "tesSUCCESS"; for any other code, for a result  *)
(* without a code and for an exception it ends with status "error" and     *)
(* raises to its caller.                                                   *)
(***************************************************************************)
C11_SuccessIffTesSuccess ==
    \A r \in Slots : \A s \in TxStepIds :
        run[r].replied[s] # "pending" =>
            /\ Succeeded(run[r], s) <=> run[r].replied[s] = "tesSUCCESS"
            /\ run[r].replied[s] # "tesSUCCESS" =>
                  /\ Failed(run[r], s)
                  /\ run[r].ev[s][Len(run[r].ev[s])] = "error"

C11_Witness ==
    \E r \in Slots : \E s \in TxStepIds :
        run[r].replied[s] = "none" /\ Failed(run[r], s)

(***************************************************************************)
(* Vocabulary of the dashboard properties.                                 *)
(***************************************************************************)
\* This step is startFlow calling runLendingFlow in slot r.
IsStart(r) == run'[r].pc = "connect" /\ run[r].pc # "connect"

\* This step is a reply of the network to call r.
IsReply(r) == run'[r] # run[r] /\ ~IsStart(r)

Identifiers == {"vaultId", "loanBrokerId", "loanId"}

C13_FourPartiesBeforeLaterSteps ==
    \A r \in Slots :
        LET rs == run[r]
            addressed(x) == /\ "address" \in DOMAIN rs.shown[x]
                            /\ rs.shown[x].address # ""
                            /\ rs.shown[x].role = x
        IN  /\ Len(SelectSeq(rs.ev["fund-wallets"], LAMBDA e : e = "running")) <= 1
            /\ rs.connected => Started(rs, "fund-wallets")
            /\ Succeeded(rs, "fund-wallets") => \A x \in Roles : addressed(x)
            /\ (\E s \in StepIds \ {"fund-wallets"} : Started(rs, s)) =>
                  /\ Succeeded(rs, "fund-wallets")
                  /\ \A x \in Roles : addressed(x)

C13_Witness ==
    \E r \in Slots :
        /\ Started(run[r], "issuer-setup")
        /\ \A x \in Roles : "address" \in DOMAIN run[r].shown[x]

(***************************************************************************)
(* C14.  When one of the four faucet requests has failed, the provisioning *)
(* step has ended with status "error" (its request was made once only),    *)
(* no party has been given an address, no later step has started and the   *)
(* run has emitted flow_error with the failure of the provisioning step.   *)
(***************************************************************************)
C14_FaucetFailureEndsRun ==
    \A r \in Slots :
        LET rs == run[r]
        IN  (\E x \in Roles : rs.faucet[x] = "failed") =>
                /\ Failed(rs, "fund-wallets")
                /\ rs.ev["fund-wallets"] = <<"running", "error">>
                /\ \A x \in Roles : "address" \notin DOMAIN rs.shown[x]
                /\ \A s \in StepIds \ {"fund-wallets"} : ~Started(rs, s)
                /\ rs.terminal = <<"flow_error">>
                /\ rs.flowMessage = rs.err["fund-wallets"]

\* One request has failed after another one had succeeded.
C14_Witness ==
    \E r \in Slots : \E x, y \in Roles :
        run[r].faucet[x] = "failed" /\ run[r].faucet[y] = "ok"

(***************************************************************************)
(* C15.  Within a run ctx.vaultId, ctx.loanBrokerId and ctx.loanId are     *)
(* each written at most once, by the step that creates the ledger object   *)
(* (vault creation, broker creation, loan issuance) as it ends, and are    *)
(* never changed afterwards.                                               *)
(***************************************************************************)
C15_IdentifiersWrittenOnce ==
    [][\A r \in Slots :
          LET WrittenBy(old, new, creators) ==
                  old # new =>
                      /\ old = "undefined"
                      /\ \E s \in creators :
                            InFlight(run[r], s) /\ ~InFlight(run'[r], s)
          IN  ~IsStart(r) =>
                /\ WrittenBy(run[r].vaultId, run'[r].vaultId, {"create-vault"})
                /\ WrittenBy(run[r].loanBrokerId, run'[r].loanBrokerId,
                             {"create-loan-broker"})
                /\ WrittenBy(run[r].loanId, run'[r].loanId,
                             {"loan-set-countersign", "loan-set-multisig"})]_vars

\* The three identifiers are written and a later step has ended.
C15_Witness ==
    \E r \in Slots :
        /\ run[r].vaultId = "VAULT-A"
        /\ run[r].loanBrokerId = "BROKER-A"
        /\ run[r].loanId = "LOAN-A"
        /\ Succeeded(run[r], "loan-delete")

(***************************************************************************)
(* C16.  The session state of a run holds the identifiers of the vault,    *)
(* the broker entry and the loan: once the step creating the object has    *)
(* succeeded, the field vaultId, loanBrokerId or loanId of the session     *)
(* state is the identifier of the created object.                          *)
(***************************************************************************)
C16_SessionHoldsIdentifiers ==
    \A r \in Slots :
        LET Holds(field, id) == field \in DOMAIN state /\ state[field] = id
        IN  sessionRun = r =>
              /\ Succeeded(run[r], "create-vault") => Holds("vaultId", run[r].vaultId)
              /\ Succeeded(run[r], "create-loan-broker") =>
                    Holds("loanBrokerId", run[r].loanBrokerId)
              /\ (\E s \in {"loan-set-countersign", "loan-set-multisig"} :
                      Succeeded(run[r], s)) => Holds("loanId", run[r].loanId)

(***************************************************************************)
(* C17.  Whatever events have been applied, the party list of the session  *)
(* state holds exactly four parties, one per role (issuer, lender,         *)
(* borrower, broker, in the order of initialState), so no party's role     *)
(* ever changes.                                                           *)
(***************************************************************************)
C17_FourPartiesOnePerRole ==
    /\ Len(state.parties) = 4
    /\ \A i \in 1..4 : state.parties[i].role = RoleOrder[i]
    /\ \A x \in Roles : Cardinality({i \in 1..4 : state.parties[i].role = x}) = 1

\* Party updates of several roles have been applied and the run is over.
C17_Witness ==
    /\ state.status = "completed"
    /\ sessionRun # 0
    /\ \E i, j \in 1..4 :
          /\ i # j
          /\ "usdBalance" \in DOMAIN state.parties[i]
          /\ "usdBalance" \in DOMAIN state.parties[j]

(***************************************************************************)
(* C18.  The final report of a "loan-creation" run that has emitted        *)
(* flow_complete lists a non-empty address for each of the four parties    *)
(* and a non-empty vault, broker and loan identifier (never "N/A").        *)
(***************************************************************************)
C18_CompletedReportIsFull ==
    \A r \in Slots :
        LET rs == run[r]
            Listed(key) == {l[3] : l \in {x \in rs.result : x[1] = "SUMMARY" /\ x[2] = key}}
        IN  (rs.scenario = "loan-creation" /\ rs.terminal = <<"flow_complete">>) =>
                \A key \in Roles \cup {"Vault ID", "LoanBroker", "Loan ID"} :
                    /\ Listed(key) # {}
                    /\ Listed(key) \cap {"", "N/A", "undefined"} = {}

C18_Witness ==
    \E r \in Slots :
        /\ run[r].scenario = "loan-creation"
        /\ run[r].terminal = <<"flow_complete">>
        /\ sessionRun = r
        /\ state.status = "completed"

C20_DeletedLoanNotFound ==
    \A r \in Slots :
        LET rs == run[r]
        IN  (rs.scenario = "loan-default" /\ Succeeded(rs, "verify-states")) =>
                /\ Succeeded(rs, "loan-set-countersign")
                /\ rs.loanId \notin {"", "undefined"}
                /\ Succeeded(rs, "loan-manage-default")
                /\ Succeeded(rs, "loan-delete")
                /\ <<"VERIFY", "Loan Object", "Deleted or not found">> \in rs.report
                /\ <<"VERIFY", "Loan Object", "object">> \notin rs.report

\* The lookups were answered: the vault was found, the loan was not.
C20_Witness ==
    \E r \in Slots :
        /\ run[r].scenario = "loan-default"
        /\ Succeeded(run[r], "verify-states")
        /\ <<"VERIFY", "Vault Object", "object">> \in run[r].report

(***************************************************************************)
(* C21.  In the early full repayment step the amount paid, computed from   *)
(* the queried outstanding principal, is at least that principal for every *)
(* non-negative principal; when the loan lookup throws, the amount is the  *)
(* fixed 1100, and in both cases the step submits the payment.             *)
(***************************************************************************)
C21_EarlyRepaymentCoversPrincipal ==
    \A r \in Slots :
        LET rs == run[r]
            s == "loan-pay-early"
            answer == rs.asked[s]
        IN  rs.replied[s] # "pending" =>
                /\ Len(rs.submitted[s]) = 1
                /\ rs.submitted[s][1].tx.TransactionType = "LoanPay"
                /\ "loan" \in answer.failed => rs.submitted[s][1].tx.Amount = 1100
                /\ ("loan" \notin answer.failed /\ answer.principal >= 0) =>
                      rs.submitted[s][1].tx.Amount * Scale >= answer.principal

\* The lookup answered 2.5 and the step paid 3.
C21_Witness ==
    \E r \in Slots :
        /\ run[r].replied["loan-pay-early"] # "pending"
        /\ run[r].asked["loan-pay-early"].failed = {}
        /\ run[r].asked["loan-pay-early"].principal = MaxPrincipal
        /\ run[r].submitted["loan-pay-early"] # <<>>
        /\ run[r].submitted["loan-pay-early"][1].tx.Amount = 3

(***************************************************************************)
(* C22.  A diagnostic query that throws (the pre-flight vault and broker   *)
(* lookups of the loan issuance, the loan lookup of the early repayment,   *)
(* the cover and vault lookups of the withdrawals, the account and         *)
(* trust-line lookups of the verification step) does not fail the step,    *)
(* and the report of the step has a line recording it.                     *)
(***************************************************************************)
C22_DiagnosticFailureRecorded ==
    \A r \in Slots : \A s \in AloneStepIds :
        LET rs == run[r]
            kind(q) == CASE q = "account_info" -> "XRP Balance"
                         [] q = "account_lines" -> "USD Balance"
                         [] OTHER -> "QUERY"
            recorded(q) == \E line \in rs.report :
                              /\ line[1] = kind(q)
                              /\ kind(q) = "QUERY" => line[2] = q
        IN  rs.replied[s] # "pending" =>
                /\ \A q \in rs.asked[s].failed : recorded(q)
                /\ rs.replied[s] = "tesSUCCESS" => Succeeded(rs, s)

(***************************************************************************)
(* C23.  In the counterparty co-signature issuance the broker signs the    *)
(* prepared transaction, the borrower co-signs the broker-signed payload,  *)
(* and what is submitted is the payload with both signatures: it is        *)
(* submitted once per run, when the step has been answered, and never      *)
(* without the co-signature.                                               *)
(***************************************************************************)
C23_CoSignedPayloadSubmittedOnce ==
    \A r \in Slots :
        LET rs == run[r]
            s == "loan-set-countersign"
            sub == rs.submitted[s]
        IN  /\ Len(sub) <= 1
            /\ rs.replied[s] # "pending" => Len(sub) = 1
            /\ \A i \in 1..Len(sub) :
                  /\ DOMAIN sub[i] =
                        {"tx", "TxnSignature", "Signers", "CounterpartySignature"}
                  /\ sub[i].tx.TransactionType = "LoanSet"
                  /\ sub[i].tx.Account = rs.wallets["broker"]
                  /\ sub[i].TxnSignature = rs.wallets["broker"]
                  /\ sub[i].CounterpartySignature =
                        [SigningPubKey |-> rs.wallets["borrower"],
                         signed |-> <<rs.wallets["broker"], <<>>>>]

\* The co-signed issuance has been submitted and accepted in a run.
C23_Witness ==
    \E r \in Slots :
        /\ Succeeded(run[r], "loan-set-countersign")
        /\ Len(run[r].submitted["loan-set-countersign"]) = 1
        /\ run[r].submitted["loan-set-countersign"][1].CounterpartySignature.SigningPubKey
              = "rBorrower1"

(***************************************************************************)
(* C24.  In the "signerlist-loan" scenario the issuance is composed in     *)
(* this order: the signer list step (quorum 1, naming the lender) has      *)
(* succeeded; the lender signs in multi-sign mode a transaction whose      *)
(* SigningPubKey is empty; the multi-signature is assembled; the borrower  *)
(* co-signs the assembled payload; and that payload is what is submitted,  *)
(* once.                                                                   *)
(***************************************************************************)
C24_MultiSigCompositionOrder ==
    \A r \in Slots :
        LET rs == run[r]
            s == "loan-set-multisig"
            sub == rs.submitted[s]
        IN  /\ Len(sub) <= 1
            /\ rs.replied[s] # "pending" => Len(sub) = 1
            /\ \A i \in 1..Len(sub) :
                  /\ Succeeded(rs, "signerlist-set")
                  /\ DOMAIN sub[i] =
                        {"tx", "TxnSignature", "Signers", "CounterpartySignature"}
                  /\ sub[i].tx.SigningPubKey = ""
                  /\ sub[i].Signers = <<rs.wallets["lender"]>>
                  /\ sub[i].CounterpartySignature =
                        [SigningPubKey |-> rs.wallets["borrower"],
                         signed |-> <<"", <<rs.wallets["lender"]>>>>]

(***************************************************************************)
(* C25.  The Fee of the multi-signed loan issuance is the base fee autofill*)
(* set times (number of signers + 1), twice the base fee for the one       *)
(* delegate signer; the base fee is 12 when autofill set none.             *)
(***************************************************************************)
C25_MultiSigFeeScaled ==
    \A r \in Slots :
        LET rs == run[r]
            s == "loan-set-multisig"
            baseFee == IF rs.asked[s].fee = 0 THEN 12 ELSE rs.asked[s].fee
        IN  \A i \in 1..Len(rs.submitted[s]) :
                /\ Len(rs.submitted[s][i].tx_blob.Signers) = 1
                /\ rs.submitted[s][i].tx_blob.tx.Fee =
                      baseFee * (Len(rs.submitted[s][i].tx_blob.Signers) + 1)
                /\ rs.submitted[s][i].tx_blob.tx.Fee = 2 * baseFee

\* autofill set no Fee and the transaction went out with a Fee of 24.
C25_Witness ==
    \E r \in Slots :
        /\ run[r].replied["loan-set-multisig"] # "pending"
        /\ run[r].asked["loan-set-multisig"].fee = 0
        /\ run[r].submitted["loan-set-multisig"] # <<>>
        /\ run[r].submitted["loan-set-multisig"][1].tx_blob.tx.Fee = 24

(***************************************************************************)
(* C26.  In the "signerlist-loan" scenario the delegate signer (lender)    *)
(* and the counterparty (borrower) both differ from the Account of the     *)
(* transaction (broker), and the signer list set on the broker account     *)
(* does not contain the broker account.                                    *)
(***************************************************************************)
C26_DelegateAndCounterpartyDistinct ==
    \A r \in Slots :
        LET rs == run[r]
            lists == rs.submitted["signerlist-set"]
            loans == rs.submitted["loan-set-multisig"]
        IN  /\ \A i \in 1..Len(lists) :
                  /\ lists[i].tx.Account = rs.wallets["broker"]
                  /\ \A j \in 1..Len(lists[i].tx.SignerEntries) :
                        lists[i].tx.SignerEntries[j].Account # lists[i].tx.Account
            /\ \A i \in 1..Len(loans) :
                  LET blob == loans[i].tx_blob
                  IN  /\ blob.tx.Account = rs.wallets["broker"]
                      /\ \A j \in 1..Len(blob.Signers) : blob.Signers[j] # blob.tx.Account
                      /\ blob.tx.Counterparty # blob.tx.Account
                      /\ blob.CounterpartySignature.SigningPubKey # blob.tx.Account
                      /\ blob.CounterpartySignature.SigningPubKey = blob.tx.Counterparty

\* Both transactions of the scenario have been submitted.
C26_Witness ==
    \E r \in Slots :
        /\ run[r].scenario = "signerlist-loan"
        /\ Len(run[r].submitted["signerlist-set"]) = 1
        /\ Len(run[r].submitted["signerlist-set"][1].tx.SignerEntries) = 1
        /\ Len(run[r].submitted["loan-set-multisig"]) = 1
        /\ run[r].submitted["loan-set-multisig"][1].tx_blob.Signers = <<"rLender1">>

(***************************************************************************)
(* C27.  A party's displayed USD balance is changed only by a step whose   *)
(* transaction succeeded: a role has a usdBalance only when the ledger     *)
(* accepted a transfer, bulk-transfer, deposit or loan-issuance step that  *)
(* sets it.                                                                *)
(***************************************************************************)
C27_BalanceOnlyOnSuccess ==
    \A r \in Slots : \A role \in Roles :
        LET rs == run[r]
            setters == CASE role = "lender" -> {PayLender, Batch, "lender-deposits"}
                         [] role = "broker" -> {PayBroker, Batch}
                         [] role = "borrower" -> {"loan-set-countersign", "loan-set-multisig"}
                         [] OTHER -> {}
        IN  "usdBalance" \in DOMAIN rs.shown[role] =>
                \E s \in setters : rs.replied[s] = "tesSUCCESS"

(***************************************************************************)
(* C28.  Every run emits exactly one run-terminal event, flow_complete or  *)
(* flow_error and never both; the call returns (it never rejects), and the *)
(* string it returns is the report text its run-terminal event carried.    *)
(***************************************************************************)
C28_OneTerminalEventCarryingResult ==
    /\ [](\A r \in Slots :
            /\ Len(run[r].terminal) <= 1
            /\ run[r].pc \in {"closing", "done"} <=> Len(run[r].terminal) = 1
            /\ run[r].returned => run[r].pc = "done")
    /\ [][\A r \in Slots :
            Len(run'[r].terminal) > Len(run[r].terminal) =>
                /\ rawReport' = run'[r].result
                /\ state'.status = (IF run'[r].terminal[1] = "flow_complete"
                                    THEN "completed" ELSE "error")]_vars

\* A failed run has returned the report that flow_error carried.
C28_Witness ==
    \E r \in Slots :
        /\ run[r].returned
        /\ run[r].terminal = <<"flow_error">>
        /\ rawReport = run[r].result
        /\ \E line \in rawReport : line[1] = "FLOW FAILED"

(***************************************************************************)
(* C29.  A run cannot be cancelled.  In the server-sent-events route the   *)
(* client going away changes nothing in the run, which goes on to its      *)
(* completion or its first failure; the response is ended at most once,    *)
(* when the run has returned, and only if the client has not gone away.    *)
(***************************************************************************)
C29_RunNotCancelled ==
    /\ [](/\ route.ended <= 1
          /\ route.ended = 1 => route.pc = "settled"
          /\ (route.pc = "settled" /\ route.closedAt = <<>>) => route.ended = 1
          /\ route.pc = "settled" =>
                \/ route.outcome = "completed" /\ route.step = Len(LegacySteps)
                \/ route.outcome = "failed" /\ route.step < Len(LegacySteps))
    /\ [][/\ route'.closed # route.closed =>
                [route' EXCEPT !.closed = FALSE, !.closedAt = <<>>] = route
          /\ route'.ended > route.ended => ~route.closed /\ route'.pc = "settled"]_vars
    /\ (route.pc # "idle") ~> (route.pc = "settled")

\* The client went away while the third step was awaited; the run went on
\* to completion and the response was not ended.
C29_Witness ==
    /\ route.pc = "settled"
    /\ route.closedAt = <<"step", 3>>
    /\ route.outcome = "completed"
    /\ route.lastWrite = <<"flow_complete", "", "">>
    /\ route.ended = 0

(***************************************************************************)
(* C31.  A fully successful run of the legacy sequential flow executes     *)
(* exactly 12 steps: when it has completed, it has created exactly 12      *)
(* distinct step records (the progress goes from 0/12 to 12/12).           *)
(***************************************************************************)
C31_LegacyRunHasTwelveSteps ==
    route.outcome = "completed" =>
        /\ Cardinality(route.records) = 12
        /\ route.step = 12

(***************************************************************************)
(* C32.  The session's step list holds at most one record per step id at   *)
(* all times.  While a run delivers events, the ids already in the list    *)
(* stay where they are (a step_update for a known id replaces the record   *)
(* in place, nothing is removed or reordered), new ids are appended, and a *)
(* record whose step emitted nothing is unchanged.                         *)
(***************************************************************************)
C32_StepListUpsert ==
    /\ [](\A i, j \in 1..Len(state.steps) :
             state.steps[i].id = state.steps[j].id => i = j)
    /\ [][(\E r \in Slots : IsReply(r)) =>
            /\ Len(state.steps') >= Len(state.steps)
            /\ \A i \in 1..Len(state.steps) :
                  /\ state.steps'[i].id = state.steps[i].id
                  /\ (\A r \in Slots :
                         run'[r].ev[state.steps[i].id] = run[r].ev[state.steps[i].id])
                        => state.steps'[i] = state.steps[i]
            /\ \A i \in (Len(state.steps) + 1)..Len(state.steps') :
                  \E r \in Slots :
                      run'[r].ev[state.steps'[i].id] # run[r].ev[state.steps'[i].id]
         ]_vars

\* A run has replaced the record of its first step in place and appended
\* the records of later steps.
C32_Witness ==
    /\ sessionRun # 0
    /\ state.status = "running"
    /\ Len(state.steps) >= 3
    /\ state.steps[1].status = "success"
    /\ state.steps[3].status = "running"

(***************************************************************************)
(* C33.  A party_update for role r changes only the party with role r and  *)
(* only the fields it carries: whenever a run delivers events, every party *)
(* keeps its role and all its fields, and a field of a party that is new   *)
(* or has changed has the value a party_update of the run carried for that *)
(* party's role.                                                           *)
(***************************************************************************)
C33_PartyUpdateFrame ==
    [][\A r \in Slots : IsReply(r) =>
          \A i \in 1..4 :
              /\ state.parties'[i].role = state.parties[i].role
              /\ DOMAIN state.parties[i] \subseteq DOMAIN state.parties'[i]
              /\ \A f \in DOMAIN state.parties'[i] :
                    \/ /\ f \in DOMAIN state.parties[i]
                       /\ state.parties'[i][f] = state.parties[i][f]
                    \/ /\ f \in DOMAIN run'[r].shown[RoleOrder[i]]
                       /\ state.parties'[i][f] = run'[r].shown[RoleOrder[i]][f]
      ]_vars

\* The lender's USD balance has been updated by an event that carried the
\* role and the balance only; the address and seed of the funding are kept,
\* and the borrower has had no balance update.
C33_Witness ==
    /\ sessionRun # 0
    /\ state.status = "running"
    /\ "usdBalance" \in DOMAIN state.parties[2]
    /\ "address" \in DOMAIN state.parties[2]
    /\ state.parties[2].address = run[sessionRun].wallets.lender
    /\ "usdBalance" \notin DOMAIN state.parties[3]

(***************************************************************************)
(* C34.  The identifier a creating step extracts is the ledger index of    *)
(* the first created node, in list order, whose entry type is the expected *)
(* tag (Vault, LoanBroker or Loan); later matching nodes, modified or      *)
(* deleted nodes and created nodes of other types are ignored, and when no *)
(* node matches the identifier is the empty string.                        *)
(***************************************************************************)
C34_FirstMatchingCreatedNode ==
    \A r \in Slots : \A s \in {"create-vault", "create-loan-broker",
                                "loan-set-countersign", "loan-set-multisig"} :
        LET rs == run[r]
            nodes == rs.asked[s].nodes
            id == CASE s = "create-vault" -> rs.vaultId
                    [] s = "create-loan-broker" -> rs.loanBrokerId
                    [] OTHER -> rs.loanId
            matches == {i \in 1..Len(nodes) :
                          /\ nodes[i].kind = "CreatedNode"
                          /\ nodes[i].LedgerEntryType = CreatedType(s)}
        IN  rs.replied[s] \notin {"pending", "exception"} =>
                /\ matches = {} => id = ""
                /\ \A i \in matches :
                      (\A j \in matches : i <= j) => id = nodes[i].LedgerIndex

\* The ledger listed a created node of another type, then two created
\* nodes of the expected type; the identifier is that of the second node.
C34_Witness ==
    \E r \in Slots : \E s \in {"create-vault", "loan-set-multisig"} :
        LET nodes == run[r].asked[s].nodes
        IN  /\ run[r].replied[s] = "tesSUCCESS"
            /\ Len(nodes) = 3
            /\ nodes[1].kind = "CreatedNode" /\ nodes[1].LedgerEntryType = "RippleState"
            /\ nodes[3].kind = "CreatedNode" /\ nodes[3].LedgerEntryType = CreatedType(s)
            /\ (IF s = "create-vault" THEN run[r].vaultId ELSE run[r].loanId)
                  = nodes[2].LedgerIndex

(***************************************************************************)
(* C35.  Within a run a step record's status only moves forward: whenever  *)
(* a run delivers events, no record of the session goes from "success" or  *)
(* "error" back to "running", and no record goes from "success" to         *)
(* "error".                                                                *)
(***************************************************************************)
C35_StatusMovesForward ==
    [][(\E r \in Slots : IsReply(r)) =>
          \A i \in 1..Len(state.steps) :
              /\ state.steps[i].status \in {"success", "error"} =>
                    state.steps'[i].status # "running"
              /\ state.steps[i].status = "success" =>
                    state.steps'[i].status = "success"]_vars

(***************************************************************************)
(* C36.  After the run-terminal event (flow_complete or flow_error) of a   *)
(* run has been emitted, the run emits no further step_update or           *)
(* party_update event and changes no identifier, also when it failed       *)
(* inside a parallel phase.                                                *)
(***************************************************************************)
C36_NoEventAfterTerminal ==
    [][\A r \in Slots :
          (run[r].terminal # <<>> /\ IsReply(r)) =>
              /\ run'[r].ev = run[r].ev
              /\ run'[r].shown = run[r].shown
              /\ \A f \in Identifiers : run'[r][f] = run[r][f]]_vars

(***************************************************************************)
(* C37.  The shared ledger connection is never disconnected while a step   *)
(* of the run is in flight: once the finally block of the run has called   *)
(* disconnect, no launched step is between its "running" event and its     *)
(* terminal event.                                                         *)
(***************************************************************************)
C37_NoDisconnectWhileInFlight ==
    \A r \in Slots :
        run[r].pc \in {"closing", "done"} =>
            \A s \in StepIds : ~InFlight(run[r], s)

(***************************************************************************)
(* C38.  When a run ends with flow_complete, the number of distinct step   *)
(* records it created equals the totalSteps value announced at the start   *)
(* of the run for its scenario, on the bulk-transfer path and on the       *)
(* fallback path alike.                                                    *)
(***************************************************************************)
C38_RecordsEqualTotalSteps ==
    \A r \in Slots :
        run[r].terminal = <<"flow_complete">> =>
            Cardinality({s \in StepIds : run[r].ev[s] # <<>>})
                = getScenarioStepCount(run[r].scenario)

(***************************************************************************)
(* C39.  Whenever the session status is completed, every step record of    *)
(* the session has status "success": a run is never reported as completed  *)
(* while one of its step records shows "error" or "running".  Stated for  *)
(* the session of the run that emitted flow_complete.                      *)
(***************************************************************************)
C39_CompletedMeansAllSucceeded ==
    (/\ state.status = "completed"
     /\ sessionRun # 0
     /\ run[sessionRun].terminal = <<"flow_complete">>) =>
        \A i \in 1..Len(state.steps) : state.steps[i].status = "success"

====
